---- MODULE Spec2Model ----
(***************************************************************************)
(* Connection registry of share/network (Network): the accept loop, the   *)
(* disconnect handler and the registry operations, as a state machine.    *)
(*                                                                         *)
(* Flows: the accept loop (one), one flow per session (Start, read-error   *)
(* close), the event bus delivering disconnect events, and one caller     *)
(* flow issuing registry operations (VerifyUser, SendToUser, ...).         *)
(* A step is one lock-protected section or one unprotected statement.      *)
(*                                                                         *)
(* The packet handlers Initialized (game server) and VerifyLinks (login     *)
(* server) are modelled on one session each; a handler runs as one step of *)
(* its session's flow, its RPC calls included. The ServerRegister RPC      *)
(* handler of the directory service is modelled with its server manager.   *)
(*                                                                         *)
(* A session object is a record of its fields. The registry maps an       *)
(* identity to the object stored under it; objects that are no longer in  *)
(* the registry but still have a running flow or a pending disconnect     *)
(* event are kept in the bag `detached`.                                  *)
(***************************************************************************)
EXTENDS Integers, FiniteSets, Sequences, Bags, TLC

\* ------------------------------------------------------------------ bounds
\* Number of values of the identity type. The code's type is uint16 (2^16
\* values); the counter arithmetic below is modulo IdSpace.
IdSpace == 2
\* Accounts are 1..MaxAccount; AccountId 0 is the zero value of a new session.
MaxAccount == 1
\* Calls of CloseUser that find a connected session, over a run.
MaxCloseUser == 1

\* One more session object than identities, so that an accept can arrive
\* while every identity is occupied.
MaxSessions == IdSpace + 1

Id == 0 .. (IdSpace - 1)
Accounts == 1 .. MaxAccount
NoKey == 0 - 1

\* The sentinel IsOnline returns: a value of the identity type (uint16).
INVALID_USER_INDEX == IdSpace - 1

VARIABLES
  clients,   \* n.clients : map[uint16]*Session, identity -> session object
  userIdx,   \* n.userIdx : uint16, the identity counter
  wlock,     \* n.lock held exclusively across steps (by the accept loop's search)
  readers,   \* flows holding n.lock shared across steps
  detached,  \* session objects not (or no longer) in n.clients, still alive
  acc,       \* the accept loop: its position, and whether l.Accept() failed
  nClose,    \* CloseUser calls that found a connected session so far
  op,        \* the caller flow: the registry operation in progress / last result
  game,      \* a game server session and its context, as the Initialized handler sees it
  login,     \* a login server session, as the VerifyLinks handler sees it
  mgr        \* the directory service: its server manager and its last RPC answer

vars == <<clients, userIdx, wlock, readers, detached, acc, nClose, op, game, login, mgr>>

\* ------------------------------------------------------------ session objects
\* Session{socket: socket}: every other field has its zero value (AuthKey is
\* assigned by packet handlers, none of which is part of this model; Ip
\* stands for socket.RemoteAddr, the same peer for every session). phase,
\* closing and events are the session flow's position, the Close calls past
\* their Connected test, and its disconnect events not yet handled.
NewSession ==
  [UserIdx |-> 0, Connected |-> FALSE, Verified |-> FALSE, LoggedIn |-> FALSE,
   AccountId |-> 0, AuthKey |-> 0, Ip |-> 0, phase |-> "new", closing |-> {}, events |-> 0]

\* The object still matters to the program: its flow runs or will run, a
\* Close is in progress on it, or a disconnect event for it is pending.
Alive(r) == r.Connected \/ r.phase = "spawned" \/ r.closing # {} \/ r.events > 0

\* n.clients[k], nil when absent
Has(c, k) == k \in DOMAIN c

\* n.clients[k] = s
MapInsert(c, k, s) == [j \in (DOMAIN c) \cup {k} |-> IF j = k THEN s ELSE c[j]]

\* delete(n.clients, k)
MapDelete(c, k) == [j \in (DOMAIN c) \ {k} |-> c[j]]

\* bag d with object r added when it is still alive
Retire(d, r) == IF Alive(r) THEN d (+) SetToBag({r}) ELSE d

\* bag d with the object stored under k (if any) added when it is still alive
RetireEntry(d, c, k) == IF Has(c, k) THEN Retire(d, c[k]) ELSE d

\* References to the session objects: a registry key, or a detached object.
Ref(reg, k, r) == [reg |-> reg, k |-> k, r |-> r]
Refs == {Ref(TRUE, k, NewSession) : k \in DOMAIN clients}
        \cup {Ref(FALSE, NoKey, r) : r \in BagToSet(detached)}
Get(ref) == IF ref.reg THEN clients[ref.k] ELSE ref.r

\* The object ref refers to becomes new.
Put(ref, new) ==
  IF ref.reg
    THEN /\ clients' = [clients EXCEPT ![ref.k] = new]
         /\ detached' = detached
    ELSE /\ clients' = clients
         /\ detached' = Retire(detached (-) SetToBag({ref.r}), new)

Live == Cardinality(DOMAIN clients) + BagCardinality(detached)
        + (IF acc.pc = "accept" THEN 0 ELSE 1)

\* The caller flow between operations; ok/idx hold the last operation's result.
IdleOp == [name |-> "none", pc |-> "idle", k |-> NoKey, except |-> NoKey,
           todo |-> {}, sent |-> << >>, ok |-> FALSE, idx |-> 0]

\* The caller flow after an operation returned (ok, idx).
Returned(ok, idx) == [IdleOp EXCEPT !.ok = ok, !.idx = idx]

CanCall == op.pc = "idle"

NoWriter == ~wlock
LockFree == ~wlock /\ readers = {}

\* -------------------------------------------------- packet handlers: state
\* charId >> 3 (arithmetic shift of an int32)
CharShift == 3
Shr(x, n) == x \div (2 ^ n)

\* The character slots of an account used here.
Slots == {0, 1}

\* The character ids a packet or a character list may carry: the ids of the
\* accounts 0 .. MaxAccount + 1 (0 is also the Id of the zero Character{}).
CharIds == {a * (2 ^ CharShift) + sl : a \in 0 .. (MaxAccount + 1), sl \in Slots}

\* The character lists the LoadCharacters call may answer: empty, one
\* character, or every character of one account.
RpcLists ==
  {{}} \cup {{c} : c \in CharIds}
       \cup {{c \in CharIds : Shr(c, CharShift) = a} : a \in 0 .. (MaxAccount + 1)}

\* The outcome of g_RPCHandler.Call(rpc.LoadCharacters, ...): the list in the
\* response, which stays the zero value (empty) when the call fails.
ListResults ==
  {[ok |-> TRUE, list |-> l] : l \in RpcLists} \cup {[ok |-> FALSE, list |-> {}]}

\* The outcome of g_RPCHandler.Call(rpc.UserVerify, ...): recv.Verified, which
\* stays the zero value (false) when the call fails.
VerifyResults ==
  {[ok |-> TRUE, Verified |-> v] : v \in BOOLEAN} \cup {[ok |-> FALSE, Verified |-> FALSE]}

\* What a handler did with the last packet. list and data are the outcomes
\* of the two RPC calls of Initialized ("none": not issued); sent counts the
\* reply packets passed to session.Send.
NoInitialized == [seen |-> FALSE, charId |-> 0, list |-> "none", data |-> "none", sent |-> 0]

\* A game server session: session.Data, session.DataEx and the context's
\* character (char = {} is ctx.char == nil).
NewGameSession ==
  [Verified |-> FALSE, LoggedIn |-> FALSE, AccountId |-> 0, DataEx |-> "nil",
   CharacterList |-> {}, char |-> {}, Connected |-> TRUE, pkt |-> NoInitialized]

\* g_ServerConfig.MagicKey, a value of the int32 range (on which the
\* conversion int32(...) is the identity).
MagicKey == 1
MagicKeys == {MagicKey, MagicKey + 1}

\* The values of the packet fields timestamp, count, channel and server.
Stamps == {0, 1}
Counts == {0, 1}
Bytes == {0, 1}

\* What VerifyLinks did with the last packet: the RPC requests it issued, the
\* outcome of the call, and the reply packets passed to session.Send.
NoVerifyLinks == [key |-> "none", calls |-> << >>, rpc |-> "none", sent |-> << >>]

\* A login server session.
NewLoginSession ==
  [Verified |-> FALSE, LoggedIn |-> FALSE, AccountId |-> 0, Ip |-> 0,
   Connected |-> TRUE, pkt |-> NoVerifyLinks]

\* ------------------------------------------------- ServerRegister: state
\* Servers the server manager holds at most (registrations over a run).
MaxServers == 2

\* server.LOGIN_SERVER, server.GAME_SERVER: two distinct values of r.Type.
LOGIN_SERVER == 1
GAME_SERVER == 2

\* The values of r.Type a caller may announce: the two known ones, one below
\* and one above them.
ServerTypes == 0 .. 3

\* The RPC clients (connections) that call, and the server ids they announce.
RpcClients == {1, 2}
ServerIds == {0, 1}

\* server.RegisterReq
RegisterReqs == [Type : ServerTypes, ServerId : ServerIds]

\* The directory service: servers is what g_ServerManager.NewServer was given,
\* in order; resp and err are the answer of the last ServerRegister call
\* (*s and the returned error; seen is false before the first call).
NewManager ==
  [servers |-> << >>, seen |-> FALSE, resp |-> [Registered |-> FALSE], err |-> "nil"]

\* ------------------------------------------------------------------- Init
Init ==
  /\ clients = << >>
  /\ userIdx = 0
  /\ wlock = FALSE
  /\ readers = {}
  /\ detached = EmptyBag
  /\ acc = [pc |-> "accept", err |-> FALSE]
  /\ nClose = 0
  /\ op = IdleOp
  /\ game = NewGameSession
  /\ login = NewLoginSession
  /\ mgr = NewManager

\* ------------------------------------------------------------ accept loop
\* Accept_Check without the probe of n.clients[n.userIdx].
Accept_CheckNoProbe ==
  /\ acc.pc = "accept"
  /\ Live < MaxSessions
  /\ NoWriter
  /\ acc' = [acc EXCEPT !.pc = "insert"]
  /\ UNCHANGED <<clients, userIdx, wlock, readers, detached, nClose, op, game, login, mgr>>

\* l.Accept() returns, with or without an error, which is only logged; the
\* session is created (with a nil socket after an error); first probe under
\* RLock.
Accept_Check ==
  /\ acc.pc = "accept"
  /\ Live < MaxSessions
  /\ NoWriter
  /\ \E err \in BOOLEAN :
       acc' = [pc |-> IF Has(clients, userIdx) THEN "lock" ELSE "insert", err |-> err]
  /\ UNCHANGED <<clients, userIdx, wlock, readers, detached, nClose, op, game, login, mgr>>

\* n.lock.Lock() before the search
Accept_Lock ==
  /\ acc.pc = "lock"
  /\ LockFree
  /\ wlock' = TRUE
  /\ acc' = [acc EXCEPT !.pc = "scan"]
  /\ UNCHANGED <<clients, userIdx, readers, detached, nClose, op, game, login, mgr>>

\* one iteration of: for n.clients[n.userIdx] != nil { n.userIdx++ }
Accept_ScanStep ==
  /\ acc.pc = "scan"
  /\ Has(clients, userIdx)
  /\ userIdx' = (userIdx + 1) % IdSpace
  /\ UNCHANGED <<clients, wlock, readers, detached, acc, nClose, op, game, login, mgr>>

\* the loop condition is false: n.lock.Unlock()
Accept_ScanEnd ==
  /\ acc.pc = "scan"
  /\ ~Has(clients, userIdx)
  /\ wlock' = FALSE
  /\ acc' = [acc EXCEPT !.pc = "recheck"]
  /\ UNCHANGED <<clients, userIdx, readers, detached, nClose, op, game, login, mgr>>

\* second probe under RLock; when occupied: log, session.Close(), continue.
\* The session was never started, so its Connected is false and Close is a no-op.
Accept_Recheck ==
  /\ acc.pc = "recheck"
  /\ NoWriter
  /\ acc' = IF Has(clients, userIdx) THEN [pc |-> "accept", err |-> FALSE]
             ELSE [acc EXCEPT !.pc = "insert"]
  /\ UNCHANGED <<clients, userIdx, wlock, readers, detached, nClose, op, game, login, mgr>>

\* Accept_Insert with n.userIdx++ moved before the insert.
Accept_InsertAfterIncrement ==
  /\ acc.pc = "insert"
  /\ LockFree
  /\ userIdx' = (userIdx + 1) % IdSpace
  /\ clients' = MapInsert(clients, userIdx',
                          [NewSession EXCEPT !.UserIdx = userIdx', !.phase = "spawned"])
  /\ detached' = RetireEntry(detached, clients, userIdx')
  /\ acc' = [pc |-> "accept", err |-> FALSE]
  /\ UNCHANGED <<wlock, readers, nClose, op, game, login, mgr>>

\* Accept_Insert with session.UserIdx = n.userIdx moved after n.userIdx++.
Accept_InsertIdxAfterIncrement ==
  /\ acc.pc = "insert"
  /\ LockFree
  /\ clients' = MapInsert(clients, userIdx,
                          [NewSession EXCEPT !.UserIdx = (userIdx + 1) % IdSpace,
                                             !.phase = "spawned"])
  /\ detached' = RetireEntry(detached, clients, userIdx)
  /\ userIdx' = (userIdx + 1) % IdSpace
  /\ acc' = [pc |-> "accept", err |-> FALSE]
  /\ UNCHANGED <<wlock, readers, nClose, op, game, login, mgr>>

\* Accept_Insert without the n.userIdx++ that follows the insert.
Accept_InsertNoIncrement ==
  /\ acc.pc = "insert"
  /\ LockFree
  /\ clients' = MapInsert(clients, userIdx,
                          [NewSession EXCEPT !.UserIdx = userIdx, !.phase = "spawned"])
  /\ detached' = RetireEntry(detached, clients, userIdx)
  /\ acc' = [pc |-> "accept", err |-> FALSE]
  /\ UNCHANGED <<userIdx, wlock, readers, nClose, op, game, login, mgr>>

\* Lock; n.clients[n.userIdx] = &session; session.UserIdx = n.userIdx;
\* n.userIdx++; Unlock; connect event; go session.Start(...)
Accept_Insert ==
  /\ acc.pc = "insert"
  /\ LockFree
  /\ clients' = MapInsert(clients, userIdx,
                          [NewSession EXCEPT !.UserIdx = userIdx, !.phase = "spawned"])
  /\ detached' = RetireEntry(detached, clients, userIdx)
  /\ userIdx' = (userIdx + 1) % IdSpace
  /\ acc' = [pc |-> "accept", err |-> FALSE]
  /\ UNCHANGED <<wlock, readers, nClose, op, game, login, mgr>>

\* ------------------------------------------------------------ session flow
\* session.Start: the read loop begins, the session is connected.
Start(ref) ==
  /\ Get(ref).phase = "spawned"
  /\ Put(ref, [Get(ref) EXCEPT !.phase = "started", !.Connected = TRUE])
  /\ UNCHANGED <<userIdx, wlock, readers, acc, nClose, op, game, login, mgr>>

\* session.Close(), first half: the test of Connected. A closer that finds
\* the session connected goes on to close it; otherwise Close is a no-op.
CloseTest(w, r) == [r EXCEPT !.closing = @ \cup {w}]

\* session.Close(), second half: Connected = false, the socket is closed and
\* the disconnect event is published.
CloseAct(w, r) == [r EXCEPT !.closing = @ \ {w}, !.Connected = FALSE, !.events = @ + 1]

\* a read error in the session's own flow calls Close
ReadError(ref) ==
  /\ Get(ref).Connected
  /\ "flow" \notin Get(ref).closing
  /\ Put(ref, CloseTest("flow", Get(ref)))
  /\ UNCHANGED <<userIdx, wlock, readers, acc, nClose, op, game, login, mgr>>

ReadErrorClose(ref) ==
  /\ "flow" \in Get(ref).closing
  /\ Put(ref, CloseAct("flow", Get(ref)))
  /\ UNCHANGED <<userIdx, wlock, readers, acc, nClose, op, game, login, mgr>>

\* ------------------------------------------------------ disconnect handler
\* onClientDisconnect that also hands the freed identity back to the counter.
onClientDisconnectRewind(ref) ==
  /\ Get(ref).events > 0
  /\ LockFree
  /\ LET s  == [Get(ref) EXCEPT !.events = @ - 1]
         c1 == IF ref.reg THEN [clients EXCEPT ![ref.k] = s] ELSE clients
         d1 == IF ref.reg THEN detached
               ELSE Retire(detached (-) SetToBag({ref.r}), s)
     IN  /\ clients' = MapDelete(c1, s.UserIdx)
         /\ detached' = RetireEntry(d1, c1, s.UserIdx)
         /\ userIdx' = s.UserIdx
  /\ UNCHANGED <<wlock, readers, acc, nClose, op, game, login, mgr>>

\* onClientDisconnect(session): Lock; delete(n.clients, session.UserIdx); Unlock.
\* The event of the object ref refers to is handled.
onClientDisconnect(ref) ==
  /\ Get(ref).events > 0
  /\ LockFree
  /\ LET s  == [Get(ref) EXCEPT !.events = @ - 1]
         c1 == IF ref.reg THEN [clients EXCEPT ![ref.k] = s] ELSE clients
         d1 == IF ref.reg THEN detached
               ELSE Retire(detached (-) SetToBag({ref.r}), s)
     IN  /\ clients' = MapDelete(c1, s.UserIdx)
         /\ detached' = RetireEntry(d1, c1, s.UserIdx)
  /\ UNCHANGED <<userIdx, wlock, readers, acc, nClose, op, game, login, mgr>>

\* --------------------------------------------------------------- CloseUser
\* CloseUser without the comparison session.UserIdx == i.
CloseUser_AnySession(i) ==
  /\ CanCall
  /\ NoWriter
  /\ LET found == DOMAIN clients IN
       IF found = {}
         THEN /\ op' = Returned(FALSE, 0)
              /\ UNCHANGED <<readers, clients, nClose>>
         ELSE \E k \in found :
                IF clients[k].Connected
                  THEN /\ nClose < MaxCloseUser
                       /\ nClose' = nClose + 1
                       /\ clients' = [clients EXCEPT ![k] = CloseTest("admin", @)]
                       /\ readers' = readers \cup {"caller"}
                       /\ op' = [IdleOp EXCEPT !.name = "CloseUser", !.pc = "closing",
                                               !.k = k]
                  ELSE /\ op' = Returned(TRUE, 0)
                       /\ UNCHANGED <<readers, clients, nClose>>
  /\ UNCHANGED <<userIdx, wlock, detached, acc, game, login, mgr>>

\* RLock; for session in n.clients: if session.UserIdx == i { session.Close(); ...
CloseUser(i) ==
  /\ CanCall
  /\ NoWriter
  /\ LET found == {k \in DOMAIN clients : clients[k].UserIdx = i} IN
       IF found = {}
         THEN /\ op' = Returned(FALSE, 0)
              /\ UNCHANGED <<readers, clients, nClose>>
         ELSE \E k \in found :
                IF clients[k].Connected
                  THEN /\ nClose < MaxCloseUser
                       /\ nClose' = nClose + 1
                       /\ clients' = [clients EXCEPT ![k] = CloseTest("admin", @)]
                       /\ readers' = readers \cup {"caller"}
                       /\ op' = [IdleOp EXCEPT !.name = "CloseUser", !.pc = "closing",
                                               !.k = k]
                  ELSE /\ op' = Returned(TRUE, 0)
                       /\ UNCHANGED <<readers, clients, nClose>>
  /\ UNCHANGED <<userIdx, wlock, detached, acc, game, login, mgr>>

\* session.Close() completes inside CloseUser
CloseUser_Close ==
  /\ op.name = "CloseUser"
  /\ op.pc = "closing"
  /\ clients' = [clients EXCEPT ![op.k] = CloseAct("admin", @)]
  /\ op' = [op EXCEPT !.pc = "closed"]
  /\ UNCHANGED <<userIdx, wlock, readers, detached, acc, nClose, game, login, mgr>>

\* RUnlock; return true
CloseUser_Ret ==
  /\ op.name = "CloseUser"
  /\ op.pc = "closed"
  /\ readers' = readers \ {"caller"}
  /\ op' = Returned(TRUE, 0)
  /\ UNCHANGED <<clients, userIdx, wlock, detached, acc, nClose, game, login, mgr>>

\* -------------------------------------------------------------- GetSession
\* The entries the scan of GetSession stops at.
Scanned(c, idx) == {k \in DOMAIN c : c[k].UserIdx = idx}

\* RLock; for value in n.clients: if value.UserIdx == idx { RUnlock; return value };
\* RUnlock; return nil. The caller holds the result: ok is "not nil", idx the
\* key of the entry returned.
GetSession(idx) ==
  /\ CanCall
  /\ NoWriter
  /\ IF Scanned(clients, idx) = {}
       THEN op' = [IdleOp EXCEPT !.name = "GetSession"]
       ELSE \E k \in Scanned(clients, idx) :
              op' = [IdleOp EXCEPT !.name = "GetSession", !.ok = TRUE, !.idx = k]
  /\ UNCHANGED <<clients, userIdx, wlock, readers, detached, acc, nClose, game, login, mgr>>

\* -------------------------------------------------------------- VerifyUser
\* The keys and addresses a caller may present.
Keys == {0, 1}
Ips == {0, 1}

\* VerifyUser without the comparison of GetIp() with ip.
VerifyUser_NoIpCheck(i, k, ip, db_idx) ==
  /\ CanCall
  /\ LockFree
  /\ IF Has(clients, i) /\ clients[i].AuthKey = k
       THEN /\ clients' = [clients EXCEPT ![i].Verified = TRUE, ![i].LoggedIn = TRUE,
                                          ![i].AccountId = db_idx]
            /\ op' = Returned(TRUE, 0)
       ELSE /\ clients' = clients
            /\ op' = Returned(FALSE, 0)
  /\ UNCHANGED <<userIdx, wlock, readers, detached, acc, nClose, game, login, mgr>>

\* Lock; if n.clients[i] != nil && AuthKey == k && GetIp() == ip { set; return true }
VerifyUser(i, k, ip, db_idx) ==
  /\ CanCall
  /\ LockFree
  /\ IF Has(clients, i) /\ clients[i].AuthKey = k /\ clients[i].Ip = ip
       THEN /\ clients' = [clients EXCEPT ![i].Verified = TRUE, ![i].LoggedIn = TRUE,
                                          ![i].AccountId = db_idx]
            /\ op' = Returned(TRUE, 0)
       ELSE /\ clients' = clients
            /\ op' = Returned(FALSE, 0)
  /\ UNCHANGED <<userIdx, wlock, readers, detached, acc, nClose, game, login, mgr>>

\* ---------------------------------------------------------------- IsOnline
\* The entries the scan of IsOnline stops at.
Matching(c, account) ==
  {k \in DOMAIN c : c[k].AccountId = account /\ c[k].Verified /\ c[k].LoggedIn}

\* The values IsOnline(account) may return (the map is ranged over in any order).
IsOnlineRet(c, account) ==
  IF Matching(c, account) = {} THEN {INVALID_USER_INDEX}
  ELSE {c[k].UserIdx : k \in Matching(c, account)}

IsOnline(account) ==
  /\ CanCall
  /\ NoWriter
  /\ \E r \in IsOnlineRet(clients, account) : op' = Returned(TRUE, r)
  /\ UNCHANGED <<clients, userIdx, wlock, readers, detached, acc, nClose, game, login, mgr>>

\* -------------------------------------------------------------- Session.Send
\* session.Send(writer) returns: the packet has been written once more to the
\* session under op.k. (While op.pc = "sending" the socket write is in progress.)
Send_Done ==
  /\ op.pc = "sending"
  /\ op' = [op EXCEPT !.pc = "sent",
                      !.sent = [x \in (DOMAIN op.sent) \cup {op.k} |->
                                  IF x = op.k
                                    THEN (IF x \in DOMAIN op.sent THEN op.sent[x] + 1 ELSE 1)
                                    ELSE op.sent[x]]]
  /\ UNCHANGED <<clients, userIdx, wlock, readers, detached, acc, nClose, game, login, mgr>>

\* -------------------------------------------------------------- SendToUser
\* SendToUser without the test of session.Connected.
SendToUser_NoConnCheck(i) ==
  /\ CanCall
  /\ NoWriter
  /\ IF Has(clients, i)
       THEN /\ op' = [IdleOp EXCEPT !.name = "SendToUser", !.pc = "sending", !.k = i]
            /\ readers' = readers \cup {"caller"}
       ELSE /\ op' = Returned(FALSE, 0)
            /\ readers' = readers
  /\ UNCHANGED <<clients, userIdx, wlock, detached, acc, nClose, game, login, mgr>>

\* RLock; session = n.clients[i]; if session != nil && session.Connected
SendToUser(i) ==
  /\ CanCall
  /\ NoWriter
  /\ IF Has(clients, i) /\ clients[i].Connected
       THEN /\ op' = [IdleOp EXCEPT !.name = "SendToUser", !.pc = "sending", !.k = i]
            /\ readers' = readers \cup {"caller"}
       ELSE /\ op' = Returned(FALSE, 0)
            /\ readers' = readers
  /\ UNCHANGED <<clients, userIdx, wlock, detached, acc, nClose, game, login, mgr>>

\* session.Send returned: RUnlock; return true
SendToUser_Ret ==
  /\ op.name = "SendToUser"
  /\ op.pc = "sent"
  /\ readers' = readers \ {"caller"}
  /\ op' = Returned(TRUE, 0)
  /\ UNCHANGED <<clients, userIdx, wlock, detached, acc, nClose, game, login, mgr>>

\* ------------------------------------------------ SendToAll, SendToAllExcept
Broadcasts == {"SendToAll", "SendToAllExcept"}

\* RLock; the range over n.clients begins. except names the session argument
\* of SendToAllExcept: the key it is registered under, or NoKey for a session
\* that is not in the registry.
Broadcast_Begin(nm, except) ==
  /\ CanCall
  /\ NoWriter
  /\ readers' = readers \cup {"caller"}
  /\ op' = [IdleOp EXCEPT !.name = nm, !.pc = "range", !.except = except,
                          !.todo = DOMAIN clients]
  /\ UNCHANGED <<clients, userIdx, wlock, detached, acc, nClose, game, login, mgr>>

SendToAll == Broadcast_Begin("SendToAll", NoKey)

SendToAllExcept(session) ==
  /\ session \in (DOMAIN clients) \cup {NoKey}
  /\ Broadcast_Begin("SendToAllExcept", session)

\* Broadcast_Next without the skip of the excluded session.
Broadcast_NextNoSkip(k) ==
  /\ op.name \in Broadcasts
  /\ op.pc \in {"range", "sent"}
  /\ k \in op.todo
  /\ op' = [op EXCEPT !.pc = "sending", !.k = k, !.todo = @ \ {k}]
  /\ UNCHANGED <<clients, userIdx, wlock, readers, detached, acc, nClose, game, login, mgr>>

\* the next entry of the range: if s == session { continue }; s.Send(writer)
Broadcast_Next(k) ==
  /\ op.name \in Broadcasts
  /\ op.pc \in {"range", "sent"}
  /\ k \in op.todo
  /\ IF op.name = "SendToAllExcept" /\ k = op.except
       THEN op' = [op EXCEPT !.pc = "range", !.todo = @ \ {k}]
       ELSE op' = [op EXCEPT !.pc = "sending", !.k = k, !.todo = @ \ {k}]
  /\ UNCHANGED <<clients, userIdx, wlock, readers, detached, acc, nClose, game, login, mgr>>

\* the range is exhausted: RUnlock
Broadcast_End ==
  /\ op.name \in Broadcasts
  /\ op.pc \in {"range", "sent"}
  /\ op.todo = {}
  /\ readers' = readers \ {"caller"}
  /\ op' = Returned(TRUE, 0)
  /\ UNCHANGED <<clients, userIdx, wlock, detached, acc, nClose, game, login, mgr>>

\* ------------------------------------------------- game server: Initialized
Registry == <<clients, userIdx, wlock, readers, detached, acc, nClose, op>>

\* Network.VerifyUser succeeds on this session (called for a login on the
\* game server): Verified, LoggedIn and AccountId are set.
GameVerifyUser(db_idx) ==
  /\ game' = [game EXCEPT !.Verified = TRUE, !.LoggedIn = TRUE, !.AccountId = db_idx]
  /\ UNCHANGED <<Registry, login, mgr>>

\* The game server attaches its payload to session.DataEx: a *context, or a
\* value of another type.
GameAttach(d) ==
  /\ game.DataEx = "nil"
  /\ game' = [game EXCEPT !.DataEx = d]
  /\ UNCHANGED <<Registry, login, mgr>>

\* The handler returns after a failed check: nothing is sent or attached.
Rejected(s, charId, list) ==
  [s EXCEPT !.pkt = [seen |-> TRUE, charId |-> charId, list |-> list,
                     data |-> "none", sent |-> 0]]

\* Initialized without the check (charId >> 3) != session.Data.AccountId.
Initialized_NoAccountCheck(charId, resList, resData) ==
  /\ game.Connected
  /\ game' =
       IF ~game.Verified \/ ~game.LoggedIn \/ game.DataEx = "nil"
         THEN Rejected(game, charId, "none")
       ELSE IF game.DataEx # "context"
         THEN Rejected(game, charId, "none")
       ELSE LET fetch == game.CharacterList = {}
                list  == IF fetch THEN resList.list ELSE game.CharacterList
                call  == IF ~fetch THEN "none" ELSE IF resList.ok THEN "ok" ELSE "failed"
                cId   == IF charId \in list THEN charId ELSE 0
                s1    == [game EXCEPT !.CharacterList = list]
            IN  IF cId # charId
                  THEN Rejected(s1, charId, call)
                  ELSE [s1 EXCEPT !.char = {cId},
                                  !.pkt = [seen |-> TRUE, charId |-> charId, list |-> call,
                                           data |-> IF resData THEN "ok" ELSE "failed",
                                           sent |-> 1]]
  /\ UNCHANGED <<Registry, login, mgr>>

\* Initialized(session, reader): charId is read from the packet; resList and
\* resData are the outcomes of the two RPC calls, when they are issued
\* (their errors are not looked at). c starts as the zero Character{}, whose
\* Id is 0.
Initialized(charId, resList, resData) ==
  /\ game.Connected
  /\ game' =
       IF ~game.Verified \/ ~game.LoggedIn \/ game.DataEx = "nil"
         THEN Rejected(game, charId, "none")
       ELSE IF game.DataEx # "context"
         THEN Rejected(game, charId, "none")
       ELSE IF Shr(charId, CharShift) # game.AccountId
         THEN Rejected(game, charId, "none")
       ELSE LET fetch == game.CharacterList = {}
                list  == IF fetch THEN resList.list ELSE game.CharacterList
                call  == IF ~fetch THEN "none" ELSE IF resList.ok THEN "ok" ELSE "failed"
                cId   == IF charId \in list THEN charId ELSE 0
                s1    == [game EXCEPT !.CharacterList = list]
            IN  IF cId # charId
                  THEN Rejected(s1, charId, call)
                  ELSE [s1 EXCEPT !.char = {cId},
                                  !.pkt = [seen |-> TRUE, charId |-> charId, list |-> call,
                                           data |-> IF resData THEN "ok" ELSE "failed",
                                           sent |-> 1]]
  /\ UNCHANGED <<Registry, login, mgr>>

\* ------------------------------------------------ login server: VerifyLinks
\* The login server's authentication records the account on the session.
LoginAuth(a) ==
  /\ login.AccountId = 0
  /\ login' = [login EXCEPT !.AccountId = a]
  /\ UNCHANGED <<Registry, game, mgr>>

\* account.VerifyReq{timestamp, count, server, channel, GetIp(), AccountId}
VerifyReq(timestamp, count, channel, server) ==
  <<timestamp, count, server, channel, login.Ip, login.AccountId>>

\* The handler's work after the magic key check: the call, then one reply
\* with the result byte.
VerifyLinks_Reply(timestamp, count, channel, server, res) ==
  [login EXCEPT !.pkt = [key |-> "ok",
                         calls |-> <<VerifyReq(timestamp, count, channel, server)>>,
                         rpc |-> IF res.ok THEN "ok" ELSE "failed",
                         sent |-> << <<channel, server, IF res.Verified THEN 1 ELSE 0>> >>]]

\* VerifyLinks without the check of the magic key.
VerifyLinks_NoKeyCheck(timestamp, count, channel, server, magickey, res) ==
  /\ login.Connected
  /\ login' = VerifyLinks_Reply(timestamp, count, channel, server, res)
  /\ UNCHANGED <<Registry, game, mgr>>

\* VerifyLinks that replies only when the session was verified.
VerifyLinks_ReplyOnSuccess(timestamp, count, channel, server, magickey, res) ==
  /\ login.Connected
  /\ login' =
       IF magickey # MagicKey
         THEN [login EXCEPT !.pkt = [NoVerifyLinks EXCEPT !.key = "bad"]]
       ELSE IF res.Verified
         THEN VerifyLinks_Reply(timestamp, count, channel, server, res)
         ELSE [VerifyLinks_Reply(timestamp, count, channel, server, res)
                 EXCEPT !.pkt.sent = << >>]
  /\ UNCHANGED <<Registry, game, mgr>>

\* VerifyLinks(session, reader): the fields are read from the packet; res is
\* the outcome of the UserVerify call (its error is not looked at).
VerifyLinks(timestamp, count, channel, server, magickey, res) ==
  /\ login.Connected
  /\ login' =
       IF magickey # MagicKey
         THEN [login EXCEPT !.pkt = [NoVerifyLinks EXCEPT !.key = "bad"]]
         ELSE VerifyLinks_Reply(timestamp, count, channel, server, res)
  /\ UNCHANGED <<Registry, game, mgr>>

\* ---------------------------------------------------------- ServerRegister
\* ServerRegister that answers Registered = true in the default case as well.
ServerRegister_AnswerAlways(c, r) ==
  /\ r.Type \in {LOGIN_SERVER, GAME_SERVER} => Len(mgr.servers) < MaxServers
  /\ mgr' =
       IF r.Type = LOGIN_SERVER \/ r.Type = GAME_SERVER
         THEN [servers |-> Append(mgr.servers, [req |-> r, client |-> c]), seen |-> TRUE,
               resp |-> [Registered |-> TRUE], err |-> "nil"]
         ELSE [mgr EXCEPT !.seen = TRUE, !.resp = [Registered |-> TRUE], !.err = "nil"]
  /\ UNCHANGED <<Registry, game, login>>

\* ServerRegister(c, r, s): response starts as the zero RegisterResp{}; the
\* switch on r.Type; *s = response; return nil.
ServerRegister(c, r) ==
  /\ r.Type \in {LOGIN_SERVER, GAME_SERVER} => Len(mgr.servers) < MaxServers
  /\ mgr' =
       IF r.Type = LOGIN_SERVER
         THEN [servers |-> Append(mgr.servers, [req |-> r, client |-> c]), seen |-> TRUE,
               resp |-> [Registered |-> TRUE], err |-> "nil"]
       ELSE IF r.Type = GAME_SERVER
         THEN [servers |-> Append(mgr.servers, [req |-> r, client |-> c]), seen |-> TRUE,
               resp |-> [Registered |-> TRUE], err |-> "nil"]
         ELSE [mgr EXCEPT !.seen = TRUE, !.resp = [Registered |-> FALSE], !.err = "nil"]
  /\ UNCHANGED <<Registry, game, login>>

\* ------------------------------------------------------------------- Next
\* The accept loop.
AcceptLoop ==
  \/ Accept_Check
  \/ Accept_Lock
  \/ Accept_ScanStep
  \/ Accept_ScanEnd
  \/ Accept_Recheck
  \/ Accept_Insert

\* The registry's life cycle: accepts, session flows, disconnect events.
NextLife ==
  \/ AcceptLoop
  \/ \E ref \in Refs : Start(ref)
  \/ \E ref \in Refs : ReadError(ref)
  \/ \E ref \in Refs : ReadErrorClose(ref)
  \/ \E ref \in Refs : onClientDisconnect(ref)

\* The life cycle with the administrative close, which may race the
\* session's own close and publish a second disconnect event.
NextCore ==
  \/ NextLife
  \/ \E i \in Id : CloseUser(i)
  \/ CloseUser_Close
  \/ CloseUser_Ret

\* The life cycle with the account operations.
NextVerify ==
  \/ NextLife
  \/ \E i \in Id, k \in Keys, ip \in Ips, a \in Accounts : VerifyUser(i, k, ip, a)
  \/ \E a \in 0 .. MaxAccount : IsOnline(a)
  \/ \E idx \in Id : GetSession(idx)

\* The life cycle with VerifyUser alone.
NextVerifyUser ==
  \/ NextLife
  \/ \E i \in Id, k \in Keys, ip \in Ips, a \in Accounts : VerifyUser(i, k, ip, a)

\* The life cycle with the send operations. (The caller flow runs one
\* operation at a time, so a CloseUser never overlaps a send.)
NextSend ==
  \/ NextLife
  \/ \E i \in Id : SendToUser(i)
  \/ SendToUser_Ret
  \/ Send_Done
  \/ SendToAll
  \/ \E s \in Id \cup {NoKey} : SendToAllExcept(s)
  \/ \E k \in Id : Broadcast_Next(k)
  \/ Broadcast_End

\* The game server session: logins, the context, Initialized packets.
NextGame ==
  \/ \E a \in Accounts : GameVerifyUser(a)
  \/ \E d \in {"context", "other"} : GameAttach(d)
  \/ \E c \in CharIds, l \in ListResults, d \in BOOLEAN : Initialized(c, l, d)

\* The login server session: authentication, VerifyLinks packets.
NextLogin ==
  \/ \E a \in Accounts : LoginAuth(a)
  \/ \E t \in Stamps, n \in Counts, ch \in Bytes, sv \in Bytes, m \in MagicKeys,
        res \in VerifyResults : VerifyLinks(t, n, ch, sv, m, res)

\* The directory service: register-server calls.
NextRegister ==
  \E c \in RpcClients, r \in RegisterReqs : ServerRegister(c, r)

Next == NextCore \/ NextVerify \/ NextSend \/ NextGame \/ NextLogin \/ NextRegister

\* Every flow and every operation.
Spec == Init /\ [][Next]_vars

SpecCore == Init /\ [][NextCore]_vars

SpecVerify == Init /\ [][NextVerify]_vars

SpecVerifyUser == Init /\ [][NextVerifyUser]_vars

SpecSend == Init /\ [][NextSend]_vars

SpecGame == Init /\ [][NextGame]_vars

SpecLogin == Init /\ [][NextLogin]_vars

SpecRegister == Init /\ [][NextRegister]_vars

\* The accept loop runs whenever it can (its goroutine is never starved).
FairCore == Init /\ [][NextCore]_vars /\ WF_vars(AcceptLoop)

\* Every flow runs whenever it can: the accept loop, the caller inside
\* CloseUser, and the event bus, which delivers a pending disconnect event of
\* every identity (the write lock is not starved by readers).
FairClose ==
  /\ Init /\ [][NextCore]_vars
  /\ WF_vars(AcceptLoop)
  /\ WF_vars(CloseUser_Close)
  /\ WF_vars(CloseUser_Ret)
  /\ \A k \in Id :
       SF_vars(\E ref \in Refs : Get(ref).UserIdx = k /\ onClientDisconnect(ref))

\* ================================================================ properties
\* The step in which the accept loop registers its session.
InsertStep == acc.pc = "insert" /\ acc'.pc = "accept"

\* The identities whose registry entry this step creates or replaces.
Assigned == {k \in DOMAIN clients' : ~Has(clients, k) \/ clients'[k] # clients[k]}

Full == DOMAIN clients = Id

\* The lowest identity with no registry entry.
LowestFree == CHOOSE k \in Id \ DOMAIN clients : \A j \in Id \ DOMAIN clients : k <= j

\* C1: no two sessions registered at the same time hold the same identity
\* (UserIdx), and the accept loop's insert leaves every existing registry
\* entry in place and unchanged.
C1_IdentityUnique ==
  /\ [](\A k1, k2 \in DOMAIN clients :
          k1 # k2 => clients[k1].UserIdx # clients[k2].UserIdx)
  /\ [][InsertStep => /\ DOMAIN clients \subseteq DOMAIN clients'
                      /\ \A k \in DOMAIN clients : clients'[k] = clients[k]
                      /\ detached' = detached]_vars

\* Two sessions are registered while an earlier holder of one of their
\* identities still awaits a disconnect event.
C1_Witness ==
  /\ Cardinality(DOMAIN clients) >= 2
  /\ \E r \in BagToSet(detached) : r.events > 0 /\ Has(clients, r.UserIdx)

\* C2: an identity K is assigned by an accept only when K has no registry
\* entry, and an entry disappears from the registry only in a step of the
\* disconnect handler run for a session whose UserIdx is that identity.
C2_ReuseAfterRemoval ==
  /\ [][InsertStep => \A k \in Assigned : ~Has(clients, k)]_vars
  /\ [][\A k \in DOMAIN clients :
          ~Has(clients', k) =>
            \E ref \in Refs : Get(ref).UserIdx = k /\ onClientDisconnect(ref)]_vars

\* The counter has come round to an identity that was held before and freed
\* by the disconnect handler, and the accept loop is about to assign it,
\* while the other identities are still held.
C2_Witness ==
  /\ acc.pc = "insert"
  /\ userIdx = 0
  /\ DOMAIN clients = Id \ {0}

\* C3 (as stated): the identity an accept assigns is the lowest identity with
\* no registry entry.
C3_LowestFree_Original ==
  [][InsertStep => Assigned = {LowestFree}]_vars

\* C3 (amended): the identity an accept assigns is the value of the identity
\* counter, which has no registry entry; the counter moves only by one
\* (modulo the identity space), either past an identity that has an entry
\* (the search) or past the identity just assigned.
C3_CounterNextFree ==
  /\ [][InsertStep => /\ Assigned = {userIdx}
                      /\ ~Has(clients, userIdx)
                      /\ clients'[userIdx].UserIdx = userIdx
                      /\ userIdx' = (userIdx + 1) % IdSpace]_vars
  /\ [][userIdx' # userIdx =>
          /\ userIdx' = (userIdx + 1) % IdSpace
          /\ InsertStep \/ (Has(clients, userIdx) /\ clients' = clients)]_vars

\* The search has stopped on a free identity and the accept loop is about to
\* assign it although a lower identity is free.
C3_Witness ==
  /\ acc.pc = "insert"
  /\ ~Has(clients, userIdx)
  /\ LowestFree < userIdx

\* C4: a search started while every identity is occupied ends: the accept
\* loop gives the connection up, releases the registry lock and is back at
\* accepting, with the registry entries as they were.
C4_FullSearchEnds ==
  (acc.pc = "scan" /\ Full) ~> (acc.pc = "accept" /\ ~wlock /\ Full)

\* C6: no registered session has the sentinel INVALID_USER_INDEX as identity.
C6_SentinelNeverAssigned ==
  \A k \in DOMAIN clients : clients[k].UserIdx # INVALID_USER_INDEX

\* C10: the disconnect handler run for a session whose identity has no
\* registry entry changes neither the registry nor the identity counter;
\* after any run of the handler the session's identity has no entry (so a
\* second run in a row is such a no-op), and deleting twice equals deleting
\* once.
C10_RemoveIdempotent ==
  /\ [][\A ref \in Refs :
          onClientDisconnect(ref) =>
            /\ ~Has(clients', Get(ref).UserIdx)
            /\ userIdx' = userIdx
            /\ ~Has(clients, Get(ref).UserIdx) => clients' = clients]_vars
  /\ [](\A k \in Id : MapDelete(MapDelete(clients, k), k) = MapDelete(clients, k))

\* A session already removed from the registry by the handler has a second
\* disconnect event pending, and its identity has no registry entry.
C10_Witness ==
  \E r \in BagToSet(detached) :
    r.events > 0 /\ ~r.Connected /\ ~Has(clients, r.UserIdx) /\ LockFree

\* C5 (as stated): in every registry state, each value IsOnline(account) may
\* return differs from INVALID_USER_INDEX exactly when some registered
\* session is verified, logged in and has that account, and is then the
\* identity of such a session.
C5_IsOnlineConsistent ==
  \A a \in 0 .. MaxAccount : \A r \in IsOnlineRet(clients, a) :
    /\ r # INVALID_USER_INDEX <=>
         \E k \in DOMAIN clients :
           clients[k].Verified /\ clients[k].LoggedIn /\ clients[k].AccountId = a
    /\ r # INVALID_USER_INDEX =>
         \E k \in DOMAIN clients :
           /\ clients[k].Verified /\ clients[k].LoggedIn /\ clients[k].AccountId = a
           /\ clients[k].UserIdx = r

\* Times the packet of the operation in progress was sent to the session under k.
SentTo(k) == IF k \in DOMAIN op.sent THEN op.sent[k] ELSE 0

\* The caller flow takes a step of SendToUser.
SendToUserStep == (\E i \in Id : SendToUser(i)) \/ (op.name = "SendToUser" /\ op' # op)

\* C7: SendToUser(i) returns false without sending when i has no registry
\* entry or its session is not connected; otherwise it sends the packet to
\* the session under i exactly once and returns true. No step of it changes
\* the registry or the identity counter.
C7_SendToUser ==
  /\ [][\A i \in Id :
          SendToUser(i) =>
            IF Has(clients, i) /\ clients[i].Connected
              THEN op'.pc = "sending" /\ op'.k = i /\ op'.sent = << >>
              ELSE op' = Returned(FALSE, 0) /\ readers' = readers]_vars
  /\ [][SendToUser_Ret =>
          /\ op' = Returned(TRUE, 0)
          /\ DOMAIN op.sent = {op.k}
          /\ SentTo(op.k) = 1]_vars
  /\ [][SendToUserStep => clients' = clients /\ userIdx' = userIdx]_vars
  /\ [](op.name = "SendToUser" => Has(clients, op.k))

\* SendToUser has sent its packet to a registered session and is about to
\* return true.
C7_Witness ==
  /\ op.name = "SendToUser"
  /\ op.pc = "sent"
  /\ SentTo(op.k) = 1

\* C8: while a broadcast is in progress the set of registered sessions does
\* not change, and when it ends every registered session has been sent the
\* packet exactly once, except the session excluded by SendToAllExcept, which
\* has been sent it zero times.
C8_BroadcastComplete ==
  /\ [][op.name \in Broadcasts => DOMAIN clients' = DOMAIN clients]_vars
  /\ [][Broadcast_End =>
          /\ DOMAIN op.sent \subseteq DOMAIN clients
          /\ \A k \in DOMAIN clients :
               SentTo(k) = IF op.name = "SendToAllExcept" /\ k = op.except
                             THEN 0 ELSE 1]_vars

\* SendToAllExcept has gone through a registry of at least two sessions, one
\* of them the excluded one, and is about to return.
C8_Witness ==
  /\ op.name = "SendToAllExcept"
  /\ op.pc \in {"range", "sent"}
  /\ op.todo = {}
  /\ op.except \in DOMAIN clients
  /\ Cardinality(DOMAIN clients) >= 2
  /\ SentTo(op.except) = 0

\* C9 (as stated): no flow holds the registry lock while a session's Send is
\* in progress.
C9_NoLockAcrossSend ==
  op.pc = "sending" => readers = {} /\ ~wlock

\* C11: closing the same identity twice (CloseUser twice, or CloseUser racing
\* the session's own read-error close) is not an error: CloseUser of a
\* registered identity returns true, and a CloseUser that finds the session
\* already closed changes nothing. No step of either close, and no run of the
\* disconnect handler that follows, changes the registry entry (its
\* Connected included) of any other identity.
C11_DoubleCloseFrame ==
  /\ [][\A i \in Id :
          CloseUser(i) =>
            /\ DOMAIN clients' = DOMAIN clients
            /\ \A k \in DOMAIN clients : clients[k].UserIdx # i => clients'[k] = clients[k]
            /\ Scanned(clients, i) # {} => op'.pc = "closing" \/ op' = Returned(TRUE, 0)
            /\ (\A k \in Scanned(clients, i) : ~clients[k].Connected) => clients' = clients]_vars
  /\ [][(op.name = "CloseUser" /\ op' # op) =>
          /\ DOMAIN clients' = DOMAIN clients
          /\ \A k \in DOMAIN clients : k # op.k => clients'[k] = clients[k]
          /\ op'.pc = "idle" => op' = Returned(TRUE, 0)]_vars
  /\ [][\A ref \in Refs :
          ReadError(ref) \/ ReadErrorClose(ref) =>
            /\ DOMAIN clients' = DOMAIN clients
            /\ \A k \in DOMAIN clients : ~(ref.reg /\ ref.k = k) => clients'[k] = clients[k]]_vars
  /\ [][\A ref \in Refs :
          onClientDisconnect(ref) =>
            \A k \in DOMAIN clients :
              k # Get(ref).UserIdx => Has(clients', k) /\ clients'[k] = clients[k]]_vars

\* A session was closed by both CloseUser and its own read error (two
\* disconnect events were published for it) while a session with another
\* identity is registered and connected.
C11_Witness ==
  \E r \in {clients[k] : k \in DOMAIN clients} \cup BagToSet(detached) :
    /\ r.events >= 2
    /\ \E k \in DOMAIN clients : k # r.UserIdx /\ clients[k].Connected

\* C12 (as stated): an iteration of the accept loop whose Accept failed
\* registers no session and does not move the identity counter past an
\* assigned identity: none of its steps changes the registry.
C12_AcceptErrorSkipped ==
  [][acc.err /\ acc' # acc => clients' = clients /\ detached' = detached]_vars

\* C16 (as stated): a run of the disconnect handler for a session removes no
\* registry entry other than that very session object.
C16_RemovesOnlyOwnSession ==
  [][\A ref \in Refs :
       onClientDisconnect(ref) =>
         \A k \in DOMAIN clients : ~Has(clients', k) => ref.reg /\ ref.k = k]_vars

\* C17: VerifyUser(i, key, ip, dbIdx) returns true and sets Verified, LoggedIn
\* and AccountId = dbIdx on the session under i exactly when i is registered
\* and its AuthKey equals key and its address equals ip; otherwise it returns
\* false and changes no session. It never changes which identities are
\* registered, and never any other session.
C17_VerifyUser ==
  [][\A i \in Id, k \in Keys, ip \in Ips, a \in Accounts :
       VerifyUser(i, k, ip, a) =>
         /\ DOMAIN clients' = DOMAIN clients
         /\ \A j \in DOMAIN clients : j # i => clients'[j] = clients[j]
         /\ IF Has(clients, i) /\ clients[i].AuthKey = k /\ clients[i].Ip = ip
              THEN /\ op'.ok
                   /\ clients'[i] = [clients[i] EXCEPT !.Verified = TRUE, !.LoggedIn = TRUE,
                                                       !.AccountId = a]
              ELSE /\ ~op'.ok
                   /\ clients' = clients]_vars

\* VerifyUser has verified one registered session (the call returned true)
\* while another registered session is left unverified.
C17_Witness ==
  /\ op = Returned(TRUE, 0)
  /\ \E i, j \in DOMAIN clients :
       /\ clients[i].Verified /\ clients[i].LoggedIn /\ clients[i].AccountId \in Accounts
       /\ ~clients[j].Verified /\ clients[j].AccountId = 0

\* C20: whenever the registry lock is not held exclusively, every registry
\* entry is keyed by its session's own identity, and GetSession(idx) returns
\* the entry stored under key idx when there is one and nil otherwise.
C20_KeyedByIdentity ==
  /\ [](~wlock => \A k \in DOMAIN clients : clients[k].UserIdx = k)
  /\ [][\A idx \in Id :
          GetSession(idx) =>
            /\ op'.pc = "idle"
            /\ op'.ok = Has(clients, idx)
            /\ op'.ok => op'.idx = idx
            /\ clients' = clients]_vars

\* GetSession has returned the entry of the identity asked for, the greatest
\* one, while every identity is registered.
C20_Witness ==
  /\ op.name = "GetSession"
  /\ op.ok
  /\ op.idx = IdSpace - 1
  /\ Full

\* CloseUser is closing the session registered under k.
ClosingUser(k) == op.name = "CloseUser" /\ op.pc = "closing" /\ op.k = k

\* The accept loop's search holds the write lock with every identity occupied.
SearchStuck == wlock /\ acc.pc = "scan" /\ Full

\* C15 (as stated): a CloseUser that found its session registered and
\* connected returns true, and the session's registry entry is removed by the
\* disconnect handler, eventually.
C15_CloseUserCompletes ==
  /\ (op.name = "CloseUser" /\ op.pc = "closing") ~> (op = Returned(TRUE, 0))
  /\ \A k \in Id : ClosingUser(k) ~> ~Has(clients, k)

\* The same, unless the accept loop's search has taken the write lock with
\* every identity occupied.
C15_CompletesUnlessSearchStuck ==
  /\ (op.name = "CloseUser" /\ op.pc = "closing") ~> (op = Returned(TRUE, 0))
  /\ \A k \in Id : ClosingUser(k) ~> (~Has(clients, k) \/ SearchStuck)

C19_RpcFailureRefused ==
  [][\A c \in CharIds, l \in ListResults, d \in BOOLEAN :
       (Initialized(c, l, d) /\ (game'.pkt.list = "failed" \/ game'.pkt.data = "failed")) =>
         game'.pkt.sent = 0 /\ game'.char = game.char]_vars

\* C14: VerifyLinks with a magic key other than the configured one issues no
\* RPC call and sends no reply, and changes nothing of the session (flags,
\* account, Connected) and nothing of the registry.
C14_BadMagicKeyRefused ==
  [][\A t \in Stamps, n \in Counts, ch \in Bytes, sv \in Bytes, m \in MagicKeys,
        res \in VerifyResults :
       (VerifyLinks(t, n, ch, sv, m, res) /\ m # MagicKey) =>
         /\ login'.pkt.calls = << >>
         /\ login'.pkt.sent = << >>
         /\ [login' EXCEPT !.pkt = login.pkt] = login
         /\ Registry' = Registry]_vars

\* An authenticated, connected session has had a VerifyLinks packet with a
\* wrong magic key.
C14_Witness ==
  /\ login.pkt.key = "bad"
  /\ login.AccountId \in Accounts
  /\ login.Connected

\* C18: VerifyLinks with the configured magic key issues the verify call once
\* and sends exactly one reply, which echoes channel and server and whose
\* result byte is 1 exactly when the call returned Verified = true; after a
\* failed call the result byte is 0.
C18_OneReply ==
  [][\A t \in Stamps, n \in Counts, ch \in Bytes, sv \in Bytes, m \in MagicKeys,
        res \in VerifyResults :
       (VerifyLinks(t, n, ch, sv, m, res) /\ m = MagicKey) =>
         /\ Len(login'.pkt.calls) = 1
         /\ Len(login'.pkt.sent) = 1
         /\ login'.pkt.sent[1] = <<ch, sv, IF res.ok /\ res.Verified THEN 1 ELSE 0>>
         /\ login'.Connected]_vars

\* The verify call of the last packet failed and the one reply carries the
\* result byte 0.
C18_Witness ==
  /\ login.pkt.key = "ok"
  /\ login.pkt.rpc = "failed"
  /\ Len(login.pkt.sent) = 1
  /\ login.pkt.sent[1][3] = 0

\* C21: the register-server handler answers Registered = true and hands the
\* caller (its request and its client) to the server manager exactly once
\* when the announced type is LOGIN_SERVER or GAME_SERVER; for any other type
\* it answers Registered = false and the server manager is left as it was. In
\* both cases it returns no error.
C21_ServerRegister ==
  [][\A c \in RpcClients, r \in RegisterReqs :
       ServerRegister(c, r) =>
         /\ mgr'.seen
         /\ mgr'.err = "nil"
         /\ mgr'.resp.Registered = (r.Type \in {LOGIN_SERVER, GAME_SERVER})
         /\ mgr'.servers = IF r.Type \in {LOGIN_SERVER, GAME_SERVER}
                             THEN Append(mgr.servers, [req |-> r, client |-> c])
                             ELSE mgr.servers]_vars

\* A login server and a game server are registered, and the last call, with
\* an unknown type, was answered Registered = false.
C21_Witness ==
  /\ mgr.seen
  /\ ~mgr.resp.Registered
  /\ mgr.err = "nil"
  /\ \E i, j \in DOMAIN mgr.servers :
       mgr.servers[i].req.Type = LOGIN_SERVER /\ mgr.servers[j].req.Type = GAME_SERVER

====
